---- MODULE Spec2Model ----
(***************************************************************************)
(* Hunter - rabbit pursuit simulation (IMO 2017 problem 3): the two        *)
(* arbitrary-precision engines                                             *)
(*   hunter_rabbit_modified_assumptions_hp.simulate  (continuous step)     *)
(*   hunter_rabbit_original_rules_hp.simulate        (unit steps, ceil)    *)
(* and their helper wrap_angle.                                            *)
(*                                                                         *)
(* Numbers.  An mpf value v is the integer v * Scale (three decimals).     *)
(* mpmath rounds the result of every operation to the working precision    *)
(* mp.mp.dps, a process-wide setting; here a precision of p digits rounds  *)
(* every result to the nearest multiple of Quantum(p) = 10^(MaxDps - p).   *)
(* Values outside the real domain (asin of |x| > 1, sqrt of x < 0) are     *)
(* complex in mpmath; the next operation of the engines on such a value    *)
(* (the % of wrap_angle, hypot) raises, so they are modelled as a fault    *)
(* of the cycle that produced them.                                        *)
(* PI_LD, the module constant wrap_angle works with, is mp.pi converted to  *)
(* an mpf when the module is imported, at mpmath's default precision;      *)
(* the runs then raise the precision.                                      *)
(***************************************************************************)
EXTENDS Integers, Sequences, FiniteSets, TLC

\* ------------------------------------------------------------ arithmetic

\* decimals of the modelled mpf values: the finest working precision
MaxDps == 3

\* mpmath's precision when the modules are imported (its default), coarser
\* than the precision the runs ask for
DefaultDps == 2

RECURSIVE Pow10(_)
Pow10(n) == IF n <= 0 THEN 1 ELSE 10 * Pow10(n - 1)

\* resolution of the modelled mpf values: 1.0 is Scale
Scale == Pow10(MaxDps)

\* the rounding unit of precision p
Quantum(p) == Pow10(MaxDps - p)

Abs(x) == IF x < 0 THEN -x ELSE x

\* round x to the nearest multiple of q (q > 0), halves upwards
RoundTo(x, q) == ((2 * x + q) \div (2 * q)) * q

\* an mpf result rounded to the working precision p
Rnd(x, p) == RoundTo(x, Quantum(p))

\* mpf + mpf, mpf - mpf
Add(x, y, p) == Rnd(x + y, p)
Sub(x, y, p) == Rnd(x - y, p)

\* mpf * mpf
Mul(x, y, p) == RoundTo(x * y, Scale * Quantum(p)) \div Scale

\* mpf / mpf for y # 0 (y = 0 raises ZeroDivisionError, see CanTurn)
Div(x, y, p) ==
    IF y > 0 THEN RoundTo(x * Scale, y * Quantum(p)) \div y
             ELSE RoundTo((-x) * Scale, (-y) * Quantum(p)) \div (-y)

\* floor of the square root of n, by bisection between lo and hi
ISqrtIn[n \in Nat, lo \in Nat, hi \in Nat] ==
    IF lo >= hi THEN lo
    ELSE IF ((lo + hi + 1) \div 2) * ((lo + hi + 1) \div 2) <= n
         THEN ISqrtIn[n, (lo + hi + 1) \div 2, hi]
         ELSE ISqrtIn[n, lo, ((lo + hi + 1) \div 2) - 1]

\* 46340^2 is the largest square below 2^31
ISqrt(n) == ISqrtIn[n, 0, IF n < 46340 THEN n ELSE 46340]

\* the integer nearest to the square root of n >= 0
NearSqrt(n) == LET s == ISqrt(n) IN IF n - s * s > s THEN s + 1 ELSE s

\* mp.sqrt(x) for x >= 0
Sqrt(x, p) == Rnd(NearSqrt(x * Scale), p)

\* mp.hypot(x, y)
Hypot(x, y, p) == Rnd(NearSqrt(x * x + y * y), p)

\* mp.ceil(x): the least integer >= x
Ceil(x) == (-((-x) \div Scale)) * Scale

\* mpf % mpf for m > 0: the remainder has the sign of the divisor
Mod(x, m) == x % m

\* pi to the resolution of the model (355/113 rounded)
MpPi == (2 * 355 * Scale + 113) \div (2 * 113)
HalfPi == (MpPi + 1) \div 2

\* sin(t) for 0 <= t <= pi/2, by its Taylor polynomial
SinPoly(t) ==
    LET t2 == RoundTo(t * t, Scale) \div Scale
        t3 == RoundTo(t2 * t, Scale) \div Scale
        t5 == RoundTo(t3 * t2, Scale) \div Scale
        t7 == RoundTo(t5 * t2, Scale) \div Scale
        t9 == RoundTo(t7 * t2, Scale) \div Scale
    IN  RoundTo(362880 * t - 60480 * t3 + 3024 * t5 - 72 * t7 + t9, 362880)
            \div 362880

\* mp.sin(t), mp.cos(t): reduced to [0, pi/2] by the symmetries of the sine
Sin(t, p) ==
    LET u == t % (2 * MpPi)
        v == IF u >= MpPi THEN u - MpPi ELSE u
        w == IF v > HalfPi THEN MpPi - v ELSE v
        s == SinPoly(IF w > HalfPi THEN HalfPi ELSE w)
    IN  Rnd(IF u >= MpPi THEN -s ELSE s, p)

Cos(t, p) == Sin(t + HalfPi, p)

\* the least t in lo..hi whose sine reaches x (the sine increases on 0..pi/2)
AsinIn[x \in Nat, lo \in Nat, hi \in Nat] ==
    IF lo >= hi THEN lo
    ELSE IF SinPoly((lo + hi) \div 2) >= x
         THEN AsinIn[x, lo, (lo + hi) \div 2]
         ELSE AsinIn[x, ((lo + hi) \div 2) + 1, hi]

\* that t, or its predecessor when its sine is nearer to x
AsinLow(x) ==
    LET t == AsinIn[x, 0, HalfPi]
    IN  IF t > 0 /\ x - SinPoly(t - 1) < SinPoly(t) - x THEN t - 1 ELSE t

\* asin(x) for 0 <= x <= 1; above sin(pi/4) by asin(x) = pi/2 - asin(sqrt(1 - x^2))
AsinPos(x) ==
    IF 2 * x * x <= Scale * Scale
    THEN AsinLow(x)
    ELSE HalfPi - AsinLow(NearSqrt(Scale * Scale - x * x))

\* whether mp.asin(x) is real: for |x| > 1 mpmath returns an mpc
AsinIsReal(x) == Abs(x) <= Scale

\* mp.asin(x) for |x| <= 1
Asin(x, p) == Rnd(IF x < 0 THEN -AsinPos(-x) ELSE AsinPos(x), p)

\* ------------------------------------------------------------ wrap_angle

\* mp.pi evaluated at precision p
Pi(p) == Rnd(MpPi, p)

\* PI_LD = LD(mp.pi): pi at the precision in force when the module is imported
PI_LD == Pi(DefaultDps)

\* wrap_angle(angle) = (angle + PI_LD) % (2 * PI_LD) - PI_LD, at precision p
wrap_angle(angle, p) ==
    Sub(Rnd(Mod(Add(angle, PI_LD, p), Rnd(2 * PI_LD, p)), p), PI_LD, p)

\* ------------------------------------------------------------ simulate

\* bound on the max_steps argument
MaxSteps == 4

\* the two invocations of simulate that may be in progress
Runs == {1, 2}

\* the engines: "modified" is the continuous-step simulate, "original" the
\* unit-step one
Engines == {"modified", "original"}

\* arguments the calls are drawn from (a > 0 and D_limit > 0, as the contract asks)
AValues == {500, 1000, 1010, 1500, 2000, 3000}
LimitValues == {500, 1200, 1400, 100000}
DigitValues == {2, 3}

VARIABLES
    dps,     \* mp.mp.dps, the process-wide working precision
    frame,   \* frame[r]: the locals of invocation r of simulate
    ret,     \* ret[r]: the dictionary invocation r returned
    wcall    \* the direct call of wrap_angle made, with its result

vars == <<dps, frame, ret, wcall>>

Last(s) == s[Len(s)]

\* Op applied to the value of v
Then(v, Op(_)) == CHOOSE r \in {Op(x) : x \in {v}} : TRUE

NoResult == [cycles |-> -1]
NoCall == [made |-> FALSE]

IdleFrame ==
    [pc |-> "idle", broke |-> FALSE, engine |-> "modified", a |-> 0,
     D_limit |-> 0, max_steps |-> 0, digits |-> 0,
     moves |-> 0, D |-> 0, res |-> 0, cycle |-> 0, z_angle |-> 0, m_angle |-> 0,
     m_dist |-> 0, x_diff |-> 0, alfa_old |-> 0, alfa_new |-> 0,
     z_x |-> <<>>, z_y |-> <<>>, m_x |-> <<>>, m_y |-> <<>>,
     D_list |-> <<>>, z_angle_list |-> <<>>, m_angle_list |-> <<>>,
     moves_list |-> <<>>]

\* the state of simulate when it reaches its loop
EntryFrame(eng, a, D_limit, max_steps, digits) ==
    [IdleFrame EXCEPT
       !.pc = "loop", !.engine = eng, !.a = a, !.D_limit = D_limit,
       !.max_steps = max_steps, !.digits = digits,
       !.moves = Scale, !.D = 0, !.res = 0, !.cycle = 0,
       !.z_angle = 0, !.m_angle = 0,
       !.z_x = <<0>>, !.z_y = <<0>>, !.m_x = <<0>>, !.m_y = <<0>>,
       !.D_list = <<0>>, !.z_angle_list = <<0>>, !.m_angle_list = <<0>>,
       !.moves_list = <<Scale>>]

\* the step length after the first cycle: a, or mp.ceil(a)
FirstMoves(eng, a) == IF eng = "original" THEN Ceil(a) ELSE a

\* broken variant: the unit-step engine rounds a * D down
NextMoves_floor(eng, a, D, p) ==
    IF eng = "original" THEN (Mul(a, D, p) \div Scale) * Scale ELSE Mul(a, D, p)

\* the step length of the next cycle: a * D, or mp.ceil(a * D)
NextMoves(eng, a, D, p) ==
    IF eng = "original" THEN Ceil(Mul(a, D, p)) ELSE Mul(a, D, p)

\* 1.0 / x raises ZeroDivisionError for x = 0; asin of the quotient is real
\* only when the quotient lies in [-1, 1]
CanTurn(x, p) == x # 0 /\ AsinIsReal(Div(Scale, x, p))

\* mp.asin(1.0 / x)
Turn(x, p) == Asin(Div(Scale, x, p), p)

\* the exception leaves simulate: nothing is returned
Raise(f) == [f EXCEPT !.pc = "fault"]

\* D = LD(1.0); res += LD(1.0)
FirstDistance(f, p) == [f EXCEPT !.D = Scale, !.res = Add(f.res, Scale, p)]

\* broken variant: the hunter moves in the first cycle as well
AdvanceRabbit_both(f, p) ==
    [f EXCEPT
       !.z_x = Append(@, Add(Last(f.z_x), Mul(f.moves, Cos(f.z_angle, p), p), p)),
       !.z_y = Append(@, Add(Last(f.z_y), Mul(f.moves, Sin(f.z_angle, p), p), p)),
       !.m_x = Append(@, Add(Last(f.m_x), Mul(f.moves, Cos(f.m_angle, p), p), p)),
       !.m_y = Append(@, Add(Last(f.m_y), Mul(f.moves, Sin(f.m_angle, p), p), p))]

\* the rabbit moves by moves along its heading, the hunter stays
AdvanceRabbit(f, p) ==
    [f EXCEPT
       !.z_x = Append(@, Add(Last(f.z_x), Mul(f.moves, Cos(f.z_angle, p), p), p)),
       !.z_y = Append(@, Add(Last(f.z_y), Mul(f.moves, Sin(f.z_angle, p), p), p)),
       !.m_x = Append(@, Last(f.m_x)),
       !.m_y = Append(@, Last(f.m_y))]

\* broken variant: the argument of asin is clamped to 1 and the run goes on
FirstRescale_clamped(f, p) ==
    LET moves == FirstMoves(f.engine, f.a)
    IN  IF moves = 0
        THEN Raise([f EXCEPT !.moves = moves])
        ELSE [f EXCEPT !.moves = moves,
                       !.alfa_new = IF CanTurn(moves, p) THEN Turn(moves, p)
                                                         ELSE Asin(Scale, p)]

\* moves = a (mp.ceil(a)); alfa_new = mp.asin(1.0 / moves)
FirstRescale(f, p) ==
    LET moves == FirstMoves(f.engine, f.a)
    IN  IF CanTurn(moves, p)
        THEN [f EXCEPT !.moves = moves, !.alfa_new = Turn(moves, p)]
        ELSE Raise([f EXCEPT !.moves = moves])

\* z_angle = wrap_angle(z_angle + alfa_new)
FirstTurn(f, p) ==
    [f EXCEPT !.z_angle = wrap_angle(Add(f.z_angle, f.alfa_new, p), p)]

\* broken variant: the step length is not logged
Logged_short(f) ==
    [f EXCEPT !.D_list = Append(@, f.D),
              !.z_angle_list = Append(@, f.z_angle),
              !.m_angle_list = Append(@, f.m_angle)]

\* the appends that end a cycle
Logged(f) ==
    [f EXCEPT !.D_list = Append(@, f.D),
              !.z_angle_list = Append(@, f.z_angle),
              !.m_angle_list = Append(@, f.m_angle),
              !.moves_list = Append(@, f.moves)]

\* the branch cycle == 1 of the loop body, at working precision p
FirstCycle(f, p) ==
    Then(FirstRescale(AdvanceRabbit(FirstDistance(f, p), p), p),
         LAMBDA g : IF g.pc = "fault" THEN g ELSE Logged(FirstTurn(g, p)))

\* broken variant: res += 1 in every cycle
Accumulate_one(res, moves, p) == Add(res, Scale, p)

\* res += moves
Accumulate(res, moves, p) == Add(res, moves, p)

\* m_dist, x_diff, the new D, and res += moves
Recurrence(f, p) ==
    LET radicand == Sub(Mul(f.moves, f.moves, p), Scale, p)
    IN  IF radicand < 0
        THEN Raise(f)
        ELSE Then(Sqrt(radicand, p), LAMBDA m_dist :
             Then(Add(Sub(m_dist, f.moves, p), f.D, p), LAMBDA x_diff :
               [f EXCEPT !.m_dist = m_dist, !.x_diff = x_diff,
                         !.D = Hypot(x_diff, Scale, p),
                         !.res = Accumulate(f.res, f.moves, p)]))

\* alfa_old = mp.asin(1.0 / moves)
SaveTurn(f, p) ==
    IF CanTurn(f.moves, p) THEN [f EXCEPT !.alfa_old = Turn(f.moves, p)]
                           ELSE Raise(f)

\* rabbit and hunter move by moves along their headings
AdvanceBoth(f, p) ==
    [f EXCEPT
       !.z_x = Append(@, Add(Last(f.z_x), Mul(f.moves, Cos(f.z_angle, p), p), p)),
       !.z_y = Append(@, Add(Last(f.z_y), Mul(f.moves, Sin(f.z_angle, p), p), p)),
       !.m_x = Append(@, Add(Last(f.m_x), Mul(f.moves, Cos(f.m_angle, p), p), p)),
       !.m_y = Append(@, Add(Last(f.m_y), Mul(f.moves, Sin(f.m_angle, p), p), p))]

\* m_angle = wrap_angle(m_angle + mp.asin(1.0 / D))
TurnHunter(f, p) ==
    IF CanTurn(f.D, p)
    THEN [f EXCEPT !.m_angle = wrap_angle(Add(f.m_angle, Turn(f.D, p), p), p)]
    ELSE Raise(f)

\* moves = a * D (mp.ceil(a * D))
Rescale(f, p) == [f EXCEPT !.moves = NextMoves(f.engine, f.a, f.D, p)]

\* z_angle = wrap_angle(z_angle + asin(1/moves) + asin(1/D) - alfa_old)
TurnRabbit(f, p) ==
    IF CanTurn(f.moves, p)
    THEN [f EXCEPT !.z_angle = wrap_angle(
              Sub(Add(Add(f.z_angle, Turn(f.moves, p), p), Turn(f.D, p), p),
                  f.alfa_old, p), p)]
    ELSE Raise(f)

\* g(f), unless an exception is already on its way out
Unless(f, Op(_)) == Then(f, LAMBDA g : IF g.pc = "fault" THEN g ELSE Op(g))

\* the branch cycle > 1 of the loop body, at working precision p
LaterCycle(f, p) ==
    Unless(Unless(Unless(Unless(Unless(Unless(
        Recurrence(f, p),
        LAMBDA g : SaveTurn(g, p)),
        LAMBDA g : AdvanceBoth(g, p)),
        LAMBDA g : TurnHunter(g, p)),
        LAMBDA g : Rescale(g, p)),
        LAMBDA g : TurnRabbit(g, p)),
        LAMBDA g : Logged(g))

\* broken variant: the limit is tested on the distance before the cycle
LimitExceeded_before(f) ==
    Len(f.D_list) > 1 /\ f.D_list[Len(f.D_list) - 1] > f.D_limit

\* the test that ends the loop: D > D_limit
LimitExceeded(f) == f.D > f.D_limit

\* the end of an iteration: break once the distance exceeds the limit
BreakCheck(f) ==
    IF LimitExceeded(f) THEN [f EXCEPT !.pc = "done", !.broke = TRUE] ELSE f

\* one iteration of the for loop: cycle += 1, one of the two branches, and
\* the break check
LoopBody(f, p) ==
    Unless(Then([f EXCEPT !.cycle = f.cycle + 1],
                LAMBDA c : IF c.cycle = 1 THEN FirstCycle(c, p)
                                          ELSE LaterCycle(c, p)),
           LAMBDA g : BreakCheck(g))

\* the dictionary simulate returns
Result(f) ==
    [z_x |-> f.z_x, z_y |-> f.z_y, m_x |-> f.m_x, m_y |-> f.m_y,
     D |-> f.D_list, z_angle |-> f.z_angle_list, m_angle |-> f.m_angle_list,
     moves |-> f.moves_list, res |-> f.res, cycles |-> f.cycle]

Init ==
    /\ dps = DefaultDps
    /\ frame = [r \in Runs |-> IdleFrame]
    /\ ret = [r \in Runs |-> NoResult]
    /\ wcall = NoCall

\* simulate(a, D_limit, max_steps, digits) is entered: it sets the
\* process-wide precision and initialises its locals
Enter(r, eng, a, D_limit, max_steps, digits) ==
    /\ frame[r].pc = "idle"
    /\ ~wcall.made
    /\ dps' = digits
    /\ frame' = [frame EXCEPT ![r] = EntryFrame(eng, a, D_limit, max_steps, digits)]
    /\ UNCHANGED <<ret, wcall>>

Call(r) ==
    \E eng \in Engines, a \in AValues, D_limit \in LimitValues,
       max_steps \in 0..MaxSteps, digits \in DigitValues :
        Enter(r, eng, a, D_limit, max_steps, digits)

\* one iteration of the loop of invocation r, under the precision in force
Cycle(r) ==
    /\ frame[r].pc = "loop"
    /\ frame[r].cycle < frame[r].max_steps
    /\ \E g \in {LoopBody(frame[r], dps)} :
           /\ frame' = [frame EXCEPT ![r] = g]
           /\ ret' = IF g.pc = "done" THEN [ret EXCEPT ![r] = Result(g)] ELSE ret
    /\ UNCHANGED <<dps, wcall>>

\* range(max_steps) is exhausted: simulate returns what it has
Exhaust(r) ==
    /\ frame[r].pc = "loop"
    /\ frame[r].cycle = frame[r].max_steps
    /\ frame' = [frame EXCEPT ![r].pc = "done"]
    /\ ret' = [ret EXCEPT ![r] = Result(frame[r])]
    /\ UNCHANGED <<dps, wcall>>

\* angles wrap_angle is called with directly: quarter turns around zero, with
\* offsets, shifted by whole turns of 2 * mp.pi
MaxQuarter == 5
MaxTurns == 2
WrapOffsets == {-10, 0, 520}

\* a direct call wrap_angle(theta + 2 * mp.pi * k), before any run (at the
\* import precision) or after the runs (at the precision the last one set)
WrapCall ==
    /\ ~wcall.made
    /\ \A r \in Runs : frame[r].pc \in {"idle", "done"}
    /\ \E i \in -MaxQuarter..MaxQuarter, o \in WrapOffsets, k \in -MaxTurns..MaxTurns :
         LET theta == (PI_LD \div 2) * i + o
             arg == Add(theta, Mul(2 * k * Scale, Pi(dps), dps), dps)
         IN  wcall' = [made |-> TRUE, theta |-> theta, k |-> k, arg |-> arg,
                       result |-> wrap_angle(arg, dps)]
    /\ UNCHANGED <<dps, frame, ret>>

\* one client: a direct call of wrap_angle, or one run of simulate
Next == WrapCall \/ Call(1) \/ Cycle(1) \/ Exhaust(1)

Spec == Init /\ [][Next]_vars

\* the whole loop of simulate run without interruption from frame f on, at
\* precision p
RECURSIVE SimulateFrom(_, _)
SimulateFrom(f, p) ==
    IF f.pc = "loop" /\ f.cycle < f.max_steps
    THEN Then(LoopBody(f, p), LAMBDA g : SimulateFrom(g, p))
    ELSE f

\* what simulate returns for the arguments of frame f when nothing else runs
ReturnsAlone(f) ==
    Then(SimulateFrom(EntryFrame(f.engine, f.a, f.D_limit, f.max_steps, f.digits),
                      f.digits),
         LAMBDA g : IF g.pc = "fault" THEN NoResult ELSE Result(g))

\* ------------------------------------------------------------ two runs

\* bound on max_steps, and the arguments, of two runs in progress together
ParSteps == 2
ParAValues == {1010, 2000}
ParLimitValues == {500, 1400}

CallPar(r) ==
    \E eng \in Engines, a \in ParAValues, D_limit \in ParLimitValues,
       max_steps \in 0..ParSteps, digits \in DigitValues :
        Enter(r, eng, a, D_limit, max_steps, digits)

\* two invocations of simulate in one process, interleaved between iterations
NextPar == \E r \in Runs : CallPar(r) \/ Cycle(r) \/ Exhaust(r)

SpecPar == Init /\ [][NextPar]_vars

\* ------------------------------------------------------------ properties

\* invocation r has returned / is between two iterations or has returned
Returned(r) == frame[r].pc = "done"
Running(r) == frame[r].pc \in {"loop", "done"}

\* s[lo] + ... + s[hi]
SumOf[s \in Seq(Int), lo \in Nat, hi \in Nat] ==
    IF lo > hi THEN 0 ELSE s[lo] + SumOf[s, lo + 1, hi]

\* C1: whenever simulate has returned (after a break or with range(max_steps)
\* exhausted, max_steps = 0 included) the returned D, z_angle, m_angle and
\* moves have the same length, the returned cycle count + 1.
HistoryLengths ==
    \A r \in Runs : Returned(r) =>
        /\ Len(ret[r].D) = ret[r].cycles + 1
        /\ Len(ret[r].z_angle) = ret[r].cycles + 1
        /\ Len(ret[r].m_angle) = ret[r].cycles + 1
        /\ Len(ret[r].moves) = ret[r].cycles + 1

\* a run that returned through the break after several cycles
HistoryLengthsWitness ==
    Returned(1) /\ frame[1].broke /\ ret[1].cycles >= 3

\* C2: the loop is left at the first cycle whose D exceeds D_limit: while the
\* loop goes on no recorded D exceeds D_limit, in a returned history no D
\* before the last one does, and simulate left through the break exactly
\* when the last D does.
StopsAtFirstExceed ==
    \A r \in Runs :
        /\ frame[r].pc = "loop" =>
              \A i \in 1..Len(frame[r].D_list) : frame[r].D_list[i] <= frame[r].D_limit
        /\ Returned(r) =>
              /\ \A i \in 1..(Len(ret[r].D) - 1) : ret[r].D[i] <= frame[r].D_limit
              /\ frame[r].broke <=> Last(ret[r].D) > frame[r].D_limit

\* a run stopped by the limit in its third cycle
StopsAtFirstExceedWitness ==
    /\ Returned(1) /\ frame[1].broke /\ ret[1].cycles = 3
    /\ ret[1].D[3] > Scale /\ ret[1].D[3] <= frame[1].D_limit

\* C3: a run that used up max_steps without exceeding D_limit returns a
\* result that differs from the result of a run stopped by the limit, so
\* that the result tells a truncated run from a converged one.
TruncationReported ==
    \A r \in Runs, q \in Runs :
        (Returned(r) /\ Returned(q) /\ ~frame[r].broke /\ frame[q].broke)
            => ret[r] # ret[q]

\* res is 0 before the first cycle, 1 after it, and after n cycles
\* 1 + moves[1] + ... + moves[n-1]
ResIsSumOfMoves ==
    \A r \in Runs : Running(r) =>
        /\ frame[r].cycle = 0 => frame[r].res = 0
        /\ frame[r].cycle = 1 => frame[r].res = Scale
        /\ frame[r].cycle >= 1 =>
              frame[r].res = Scale + SumOf[frame[r].moves_list, 2, frame[r].cycle]

\* C4: res is 0 before the first cycle, 1 after it, and after n >= 1 cycles
\* 1 + moves[1] + ... + moves[n-1] (each cycle n > 1 adds the step length it
\* used, logged at index n-1); res never decreases.
ResAccumulates ==
    /\ []ResIsSumOfMoves
    /\ [][\A r \in Runs : frame'[r].res >= frame[r].res]_vars

\* a run whose step length changed from cycle to cycle
ResAccumulatesWitness ==
    /\ Running(1) /\ frame[1].cycle >= 3
    /\ frame[1].moves_list[3] # frame[1].moves_list[2]
    /\ frame[1].res > 3 * Scale

\* C5: two runs share no mutable state: a run interleaved with another one,
\* iteration by iteration, returns the history it returns when run alone.
RunsIndependent ==
    \A r \in Runs : Returned(r) => ret[r] = ReturnsAlone(frame[r])

\* x lies in [-pi, pi), pi at precision p
InRange(x, p) == -Pi(p) <= x /\ x < Pi(p)

\* C6: wrap_angle(theta) is ((theta + pi) mod 2 pi) - pi with a non-negative
\* remainder, so it lies in [-pi, pi) and wrap_angle(theta + 2 pi k) is
\* wrap_angle(theta) for every integer k; every heading recorded by a run
\* lies in [-pi, pi).  pi is mp.pi at the precision of the call.
WrapIsModular ==
    /\ wcall.made =>
          /\ wcall.result = ((wcall.arg + Pi(dps)) % (2 * Pi(dps))) - Pi(dps)
          /\ InRange(wcall.result, dps)
          /\ wcall.result = wrap_angle(wcall.theta, dps)
    /\ \A r \in Runs : Running(r) =>
          /\ \A i \in 1..Len(frame[r].z_angle_list) :
                InRange(frame[r].z_angle_list[i], frame[r].digits)
          /\ \A i \in 1..Len(frame[r].m_angle_list) :
                InRange(frame[r].m_angle_list[i], frame[r].digits)

\* C7: in the unit-step engine every recorded step length after the seed is
\* ceil(a * D) for the D recorded with it, and every recorded step length is
\* an integer >= 1.
UnitStepsAreCeilings ==
    \A r \in Runs : (Running(r) /\ frame[r].engine = "original") =>
        /\ \A i \in 2..Len(frame[r].moves_list) :
              frame[r].moves_list[i]
                  = Ceil(Mul(frame[r].a, frame[r].D_list[i], frame[r].digits))
        /\ \A i \in 1..Len(frame[r].moves_list) :
              /\ frame[r].moves_list[i] >= Scale
              /\ frame[r].moves_list[i] % Scale = 0
        /\ frame[r].cycle >= 1 =>
              frame[r].D_list[2] = Scale /\ frame[r].moves_list[2] = Ceil(frame[r].a)

\* a unit-step run in which a * D was not an integer and the step grew
UnitStepsAreCeilingsWitness ==
    /\ Running(1) /\ frame[1].engine = "original" /\ frame[1].cycle >= 4
    /\ frame[1].moves_list[5] > frame[1].moves_list[3]
    /\ Mul(frame[1].a, frame[1].D_list[5], frame[1].digits) % Scale # 0

\* C8: after cycle 1: D = 1, moves = a (ceil(a) in the unit-step engine),
\* z_angle = wrap(asin(1 / moves)), the rabbit is at (1, 0), the hunter at
\* the origin with heading 0; for a = 2 that is D = 1, moves = 2 and
\* z_angle = asin(0.5) = 0.524.
FirstCycleState ==
    \A r \in Runs : (Running(r) /\ frame[r].cycle >= 1) =>
        LET f == frame[r]
            q == IF f.engine = "original" THEN Ceil(f.a) ELSE f.a
        IN  /\ f.D_list[2] = Scale
            /\ f.moves_list[2] = q
            /\ f.z_angle_list[2] = wrap_angle(Asin(Div(Scale, q, f.digits), f.digits),
                                              f.digits)
            /\ f.m_angle_list[2] = 0
            /\ f.z_x[2] = Scale /\ f.z_y[2] = 0
            /\ f.m_x[2] = 0 /\ f.m_y[2] = 0
            /\ f.cycle = 1 => f.D = Scale /\ f.moves = q /\ f.m_angle = 0
                              /\ f.z_angle = f.z_angle_list[2] /\ f.res = Scale
            /\ (q = 2 * Scale) =>
                  Abs(f.z_angle_list[2] - 524) <= Quantum(f.digits) \div 2

\* the continuous engine after its first cycle with a = 2.0
FirstCycleStateWitness ==
    /\ frame[1].pc = "loop" /\ frame[1].cycle = 1
    /\ frame[1].engine = "modified" /\ frame[1].a = 2 * Scale
    /\ frame[1].digits = MaxDps /\ frame[1].z_angle = 524

\* the step length or the distance of frame f is below 1
Below1(f) == f.moves < Scale \/ (f.cycle >= 1 /\ f.D < Scale)

\* a frame holds a step length or distance below 1 exactly when its run has
\* raised; a run that raised has logged nothing for that cycle and returned
\* nothing; a run that goes on or returned has logged no value below 1
DomainFaultsSurface ==
    \A r \in Runs : frame[r].pc # "idle" =>
        /\ Below1(frame[r]) <=> frame[r].pc = "fault"
        /\ frame[r].pc = "fault" =>
              /\ ret[r] = NoResult
              /\ Len(frame[r].D_list) = frame[r].cycle
              /\ Len(frame[r].moves_list) = frame[r].cycle
        /\ Running(r) =>
              /\ \A i \in 1..Len(frame[r].moves_list) : frame[r].moves_list[i] >= Scale
              /\ \A i \in 2..Len(frame[r].D_list) : frame[r].D_list[i] >= Scale

\* C9: a cycle that comes to asin(1/x) with x < 1 (x the step length or the
\* distance), or to sqrt(moves^2 - 1) with moves < 1, raises: the run ends in
\* that cycle, nothing is substituted, the history is not extended and
\* nothing is ever returned.
DomainFaultsStay ==
    /\ []DomainFaultsSurface
    /\ [][\A r \in Runs : frame[r].pc = "fault" =>
             (frame'[r] = frame[r] /\ ret'[r] = NoResult)]_vars

\* the continuous engine with a = 0.5: asin(2.0) in cycle 1
DomainFaultsWitness ==
    frame[1].pc = "fault" /\ frame[1].moves = Scale \div 2 /\ frame[1].cycle = 1

\* C10: at every recorded cycle n >= 1, z_angle[n] - m_angle[n] is congruent
\* to asin(1 / moves[n]) modulo 2 pi, pi being mp.pi at the precision of the
\* run.
HeadingLead ==
    \A r \in Runs : Running(r) =>
        \A i \in 2..Len(frame[r].moves_list) :
            (frame[r].z_angle_list[i] - frame[r].m_angle_list[i]
               - Asin(Div(Scale, frame[r].moves_list[i], frame[r].digits),
                      frame[r].digits)) % (2 * Pi(frame[r].digits)) = 0
====
